---- MODULE Spec2Model ----
(***************************************************************************)
(* Model of src/app.py: the signal scorers, the two composite scores and   *)
(* the label mapper of the Nasdaq 100 / Gold market-bias dashboard, and    *)
(* the module-level evaluation cycle that fetches the payloads and scores  *)
(* them.                                                                   *)
(*                                                                         *)
(* Units.  Scores are integers in thousandths (1.5 is 1500): every score   *)
(* of the program is a multiple of 0.5 and every weight a multiple of      *)
(* 0.05, so all composites are exact in thousandths.  Percent changes are  *)
(* integers in hundredths of a percent (0.2% is 20).  Ratios are compared  *)
(* with their thresholds by cross-multiplication.  Report dates are days,  *)
(* calendar timestamps and the clock are seconds.                          *)
(***************************************************************************)
EXTENDS Integers, Sequences, FiniteSets, TLC

VARIABLES
    pc,                 \* position of the module-level script (lines 323-392)
    now,                \* the wall clock that datetime.utcnow() reads
    cot_df,             \* line 324
    cot_ndx,            \* line 325
    cot_gold,           \* line 326
    px_nas,             \* line 328
    opt_qqq,            \* line 329
    breadth,            \* line 330: breadth_score_raw, adv, dec, tot
    macro_events,       \* line 331
    cross_map,          \* lines 337-340
    nasdaq,             \* lines 349-358: the Nasdaq column's scores and label
    opt_gld,            \* line 376
    gold,               \* lines 373-381: the Gold column's scores and label
    cached,             \* st.cache_data holds the payloads of this script run
    prev_result,        \* what the previous script run displayed
    runs,               \* script runs so far
    call,               \* a pure function applied to a bounded input
    ret                 \* what it returned

cycleVars == <<pc, now, cot_df, cot_ndx, cot_gold, px_nas, opt_qqq, breadth,
               macro_events, cross_map, nasdaq, opt_gld, gold, cached,
               prev_result, runs>>
vars == <<pc, now, cot_df, cot_ndx, cot_gold, px_nas, opt_qqq, breadth,
          macro_events, cross_map, nasdaq, opt_gld, gold, cached,
          prev_result, runs, call, ret>>

\* Python's None.
None == [tag |-> "None"]

Min(a, b) == IF a < b THEN a ELSE b

Max(a, b) == IF a > b THEN a ELSE b

(***************************************************************************)
(* Label mapper                                                            *)
(***************************************************************************)
sentiment_label_strict(score) ==
    IF score > 1500 THEN <<"Bullish", "green_circle">>
    ELSE IF score >= 500 THEN <<"Mild Bullish", "green_square">>
    ELSE IF score > -500 THEN <<"Neutral", "yellow_square">>
    ELSE IF score > -1500 THEN <<"Mild Bearish", "orange_square">>
    ELSE <<"Bearish", "red_circle">>

sentiment_label(score) ==
    IF score >= 1500 THEN <<"Bullish", "green_circle">>
    ELSE IF score >= 500 THEN <<"Mild Bullish", "green_square">>
    ELSE IF score > -500 THEN <<"Neutral", "yellow_square">>
    ELSE IF score > -1500 THEN <<"Mild Bearish", "orange_square">>
    ELSE <<"Bearish", "red_circle">>

(***************************************************************************)
(* Positioning (COT) parser                                                *)
(***************************************************************************)
WeekDays == 7

NasdaqNames == {"E-MINI NASDAQ-100", "nasdaq 100 consolidated"}

GoldNames == {"GOLD - COMMODITY EXCHANGE INC.", "Micro Gold"}

\* str.contains("NASDAQ-100|E-MINI NASDAQ-100|NASDAQ 100", case=False,
\* na=False) as a boolean series over the rows of df.
nasdaq_mask(df) == [i \in 1..Len(df) |-> df[i].name \in NasdaqNames]

\* str.contains("GOLD", case=False, na=False).
gold_mask(df) == [i \in 1..Len(df) |-> df[i].name \in GoldNames]

\* df[mask]: the rows whose mask entry is True, in the order of df.
RECURSIVE BoolIndex(_, _)
BoolIndex(df, mask) ==
    IF df = <<>> THEN <<>>
    ELSE (IF Head(mask) THEN <<Head(df)>> ELSE <<>>)
         \o BoolIndex(Tail(df), Tail(mask))

RECURSIVE SeqMaxDate(_)
SeqMaxDate(sub) ==
    IF Len(sub) = 1 THEN sub[1].date
    ELSE Max(sub[1].date, SeqMaxDate(Tail(sub)))

\* A pandas frame holding the given rows.
Frame(rows) == [tag |-> "df", rows |-> rows]

RowsOn(sub, d) == Frame(SelectSeq(sub, LAMBDA r : r.date = d))

find_latest_week(df, mask) ==
    LET sub == BoolIndex(df, mask)
    IN  IF sub = <<>> THEN <<None, None>>
        ELSE LET latest == SeqMaxDate(sub)
                 prev == latest - WeekDays
             IN  <<RowsOn(sub, latest), RowsOn(sub, prev)>>

vals(row) ==
    [non_com_long |-> row.ncl, non_com_short |-> row.ncs,
     comm_long |-> row.cl, comm_short |-> row.cs,
     open_interest |-> row.oi, date |-> row.date]

CotRecord(L, dLong, dShort, dOi) ==
    [tag |-> "cot",
     non_com_long |-> L.non_com_long, non_com_short |-> L.non_com_short,
     comm_long |-> L.comm_long, comm_short |-> L.comm_short,
     open_interest |-> L.open_interest, date |-> L.date,
     chg_non_com_long |-> dLong, chg_non_com_short |-> dShort,
     chg_oi |-> dOi,
     net_spec |-> L.non_com_long - L.non_com_short,
     net_comm |-> L.comm_long - L.comm_short]

\* parse_cot with the prior-week rows taken as the last row of the frame
\* when no row is dated a week before the latest one.
parse_cot_anyprev(df, mask) ==
    LET lp == find_latest_week(df, mask)
        latest == lp[1]
        prev == lp[2]
    IN  IF latest = None \/ latest.rows = <<>> THEN None
        ELSE LET L == vals(latest.rows[1])
                 P == IF prev # None /\ prev.rows # <<>>
                      THEN vals(prev.rows[1])
                      ELSE vals(df[Len(df)])
             IN  CotRecord(L, L.non_com_long - P.non_com_long,
                           L.non_com_short - P.non_com_short,
                           L.open_interest - P.open_interest)

\* The body shared by parse_cot_for_nasdaq and parse_cot_for_gold, which
\* differ in the mask only.
parse_cot(df, mask) ==
    LET lp == find_latest_week(df, mask)
        latest == lp[1]
        prev == lp[2]
    IN  IF latest = None \/ latest.rows = <<>> THEN None
        ELSE LET L == vals(latest.rows[1])
             IN  IF prev # None /\ prev.rows # <<>>
                 THEN LET P == vals(prev.rows[1])
                      IN  CotRecord(L, L.non_com_long - P.non_com_long,
                                    L.non_com_short - P.non_com_short,
                                    L.open_interest - P.open_interest)
                 ELSE CotRecord(L, 0, 0, 0)

parse_cot_for_nasdaq(df) == parse_cot(df, nasdaq_mask(df))

parse_cot_for_gold(df) == parse_cot(df, gold_mask(df))

(***************************************************************************)
(* Option flow                                                             *)
(***************************************************************************)
\* Lines 178-189 of fetch_option_flow_yf: the summary built from the chain's
\* totals.  put_call_ratio is the exact quotient, kept as numerator and
\* denominator, or None when no call traded.
option_flow(total_call_vol, total_put_vol) ==
    [tag |-> "flow",
     call_volume |-> total_call_vol,
     put_volume |-> total_put_vol,
     put_call_ratio |->
         IF total_call_vol > 0
         THEN [tag |-> "ratio", num |-> total_put_vol, den |-> total_call_vol]
         ELSE None]

(***************************************************************************)
(* Scorers.  Each returns (score, text); the text keeps the wording of the *)
(* source without the formatted numbers.                                   *)
(***************************************************************************)
Scored(s, txt) == [score |-> s, txt |-> txt]

BasketSize == 20

compute_breadth_wide(adv, dec) ==
    LET tot == BasketSize
        den == Max(dec, 1)
        s1 == IF 10 * adv >= 12 * den THEN 1000
              ELSE IF 10 * adv < 8 * den THEN -1000
              ELSE 0
        s2 == IF 100 * adv > 55 * tot THEN s1 + 1000
              ELSE IF 100 * adv < 45 * tot THEN s1 - 1000
              ELSE s1
    IN  <<Max(Min(s2, 3000), -3000), adv, dec, tot>>

\* Lines 212-222 of compute_breadth, from the counts of lines 210-211.
compute_breadth(adv, dec) ==
    LET tot == BasketSize
        den == Max(dec, 1)
        s1 == IF 10 * adv > 12 * den THEN 1000
              ELSE IF 10 * adv < 8 * den THEN -1000
              ELSE 0
        s2 == IF 100 * adv > 55 * tot THEN s1 + 1000
              ELSE IF 100 * adv < 45 * tot THEN s1 - 1000
              ELSE s1
    IN  <<Max(Min(s2, 3000), -3000), adv, dec, tot>>

score_options_zero_pcr(flow) ==
    IF flow = None THEN Scored(0, "No option flow (PCR)")
    ELSE LET pcr == IF flow.put_call_ratio = None
                    THEN [tag |-> "ratio", num |-> 0, den |-> 1]
                    ELSE flow.put_call_ratio
         IN  IF 10 * pcr.num < 8 * pcr.den THEN Scored(1000, "Put/Call bullish")
             ELSE IF 10 * pcr.num > 12 * pcr.den
                  THEN Scored(-1000, "Put/Call bearish")
                  ELSE Scored(0, "Put/Call neutral")

score_options(flow) ==
    IF flow = None \/ flow.put_call_ratio = None
    THEN Scored(0, "No option flow (PCR)")
    ELSE LET pcr == flow.put_call_ratio
         IN  IF 10 * pcr.num < 8 * pcr.den THEN Scored(1000, "Put/Call bullish")
             ELSE IF 10 * pcr.num > 12 * pcr.den
                  THEN Scored(-1000, "Put/Call bearish")
                  ELSE Scored(0, "Put/Call neutral")

\* px_df is None or a frame whose PctChange column is a function of the
\* tickers in its index.
score_price(px_df, base_ticker) ==
    IF px_df = None \/ base_ticker \notin DOMAIN px_df.PctChange
    THEN Scored(0, "No price data")
    ELSE LET chg == px_df.PctChange[base_ticker]
         IN  Scored(IF chg > 20 THEN 1000 ELSE IF chg < -20 THEN -1000 ELSE 0,
                    "change")

score_cot_generic(cot) ==
    IF cot = None THEN Scored(0, "No COT")
    ELSE LET s0 == IF cot.net_spec > 0 THEN 1000 ELSE -1000
             s1 == IF cot.chg_non_com_short > cot.chg_non_com_long
                   THEN s0 - 500 ELSE s0 + 500
         IN  Scored(Max(Min(s1, 2000), -2000), "NetSpec")

score_gold_cot_ge(cot) ==
    IF cot = None THEN Scored(0, "No COT")
    ELSE LET s0 == IF cot.net_spec >= 50000 THEN 1500
                   ELSE IF cot.net_spec > 0 THEN 1000 ELSE -1000
             s1 == IF cot.chg_non_com_long > 0 THEN s0 + 500 ELSE s0 - 500
         IN  Scored(Max(Min(s1, 2000), -2000), "Gold NetSpec")

score_gold_cot(cot) ==
    IF cot = None THEN Scored(0, "No COT")
    ELSE LET s0 == IF cot.net_spec > 50000 THEN 1500
                   ELSE IF cot.net_spec > 0 THEN 1000 ELSE -1000
             s1 == IF cot.chg_non_com_long > 0 THEN s0 + 500 ELSE s0 - 500
         IN  Scored(Max(Min(s1, 2000), -2000), "Gold NetSpec")

(***************************************************************************)
(* Macro calendar                                                          *)
(***************************************************************************)
\* timedelta(days=3), in seconds.
Window == 259200

\* impact_map.get(e.get("Impact"), 0)
impact_of(e) ==
    IF e.Impact = "High" THEN 2000
    ELSE IF e.Impact = "Medium" THEN 1000
    ELSE 0

\* The loop body of score_macro, lines 269-288: the score after event e.
\* Date is None, unparseable or a timestamp; Surprise is None, the empty
\* string, a number or a text float() rejects.
macro_step(score, e, start, end) ==
    IF e.Date.tag # "datetime" THEN score
    ELSE IF e.Date.t < start \/ e.Date.t > end THEN score
    ELSE IF e.Surprise.tag \in {"None", "empty"}
         THEN score - impact_of(e) \div 2
    ELSE IF e.Surprise.tag = "number"
         THEN (IF e.Surprise.v > 0 THEN score + impact_of(e)
                                   ELSE score - impact_of(e))
    ELSE score

RECURSIVE macro_loop(_, _, _, _)
macro_loop(score, events, start, end) ==
    IF events = <<>> THEN score
    ELSE macro_loop(macro_step(score, Head(events), start, end),
                    Tail(events), start, end)

\* score_macro with the clock reading of line 263 as the parameter clock.
score_macro(calendar_events, clock) ==
    LET start == clock - Window
        end == clock + Window
        score == macro_loop(0, calendar_events, start, end)
    IN  Scored(Max(Min(score, 3000), -3000), "Macro impact score")

(***************************************************************************)
(* Gold cross-market                                                       *)
(***************************************************************************)
score_gold_cross_unclamped(pxmap) ==
    LET has(k) == k \in DOMAIN pxmap
        s1 == IF has("DXY")
              THEN (IF pxmap["DXY"].PctChange < 0 THEN 1000 ELSE -1000)
              ELSE 0
        s2 == IF has("US10Y")
              THEN (IF pxmap["US10Y"].PctChange > 0 THEN s1 - 1000 ELSE s1 + 1000)
              ELSE s1
        s3 == IF has("VIX")
              THEN (IF pxmap["VIX"].PctChange < 0 THEN s2 - 500 ELSE s2 + 500)
              ELSE s2
    IN  Scored(s3, "notes")

\* pxmap.get(k) is None exactly when k is not a key of pxmap.
score_gold_cross(pxmap) ==
    LET has(k) == k \in DOMAIN pxmap
        s1 == IF has("DXY")
              THEN (IF pxmap["DXY"].PctChange < 0 THEN 1000 ELSE -1000)
              ELSE 0
        s2 == IF has("US10Y")
              THEN (IF pxmap["US10Y"].PctChange > 0 THEN s1 - 1000 ELSE s1 + 1000)
              ELSE s1
        s3 == IF has("VIX")
              THEN (IF pxmap["VIX"].PctChange < 0 THEN s2 - 500 ELSE s2 + 500)
              ELSE s2
    IN  Scored(Max(Min(s3, 2000), -2000), "notes")

(***************************************************************************)
(* The two columns                                                         *)
(***************************************************************************)
nasdaq_score_even(s_cot, s_prc, s_opt, s_brd, s_mac) ==
    (20 * s_cot + 20 * s_prc + 20 * s_opt + 20 * s_brd + 20 * s_mac) \div 100

\* Line 357, weights in hundredths.
nasdaq_score(s_cot, s_prc, s_opt, s_brd, s_mac) ==
    (15 * s_cot + 25 * s_prc + 20 * s_opt + 20 * s_brd + 20 * s_mac) \div 100

\* Lines 349-358.
nasdaq_column(cot, px, opt, breadth_score_raw, events, clock) ==
    LET s_cot == score_cot_generic(cot).score
        s_prc == score_price(px, "QQQ").score
        s_opt == score_options(opt).score
        s_brd == Max(Min(breadth_score_raw, 2000), -2000)
        s_mac == score_macro(events, clock).score
        total == nasdaq_score(s_cot, s_prc, s_opt, s_brd, s_mac)
    IN  [s_cot |-> s_cot, s_prc |-> s_prc, s_opt |-> s_opt, s_brd |-> s_brd,
         s_mac |-> s_mac, score |-> total, lbl |-> sentiment_label(total)[1]]

\* Line 380, weights in hundredths; the inflation slot is 0.25*0.
gold_score(s_cot_g, s_opt_g, s_cross) ==
    (35 * s_cot_g + 25 * 0 + 20 * s_opt_g + 20 * s_cross) \div 100

\* Lines 373-381, with the option flow line 376 fetched.
gold_column(cot, opt, pxmap) ==
    LET s_cot_g == score_gold_cot(cot).score
        s_opt_g == score_options(opt).score
        s_cross == score_gold_cross(pxmap).score
        total == gold_score(s_cot_g, s_opt_g, s_cross)
    IN  [s_cot_g |-> s_cot_g, s_opt_g |-> s_opt_g, s_cross |-> s_cross,
         score |-> total, lbl |-> sentiment_label(total)[1]]

(***************************************************************************)
(* Bounded inputs                                                          *)
(***************************************************************************)
MaxRows == 3

MaxEvents == 3

\* Sequences of length 1..n over S.
RECURSIVE SeqsUpTo(_, _)
SeqsUpTo(S, n) ==
    IF n = 0 THEN {}
    ELSE LET shorter == SeqsUpTo(S, n - 1)
         IN  {<<x>> : x \in S} \cup shorter
             \cup {Append(q, x) : q \in shorter, x \in S}

\* Rows of the CFTC csv: market name, report date (a day number) and the
\* position columns the parser reads.
CotRows ==
    {[name |-> n, date |-> d, ncl |-> p[1], ncs |-> p[2], oi |-> p[3],
      cl |-> 40, cs |-> 45] :
        n \in {"E-MINI NASDAQ-100", "GOLD - COMMODITY EXCHANGE INC.",
               "SILVER - COMMODITY EXCHANGE INC."},
        d \in {1, 8, 9},
        p \in {<<10, 5, 100>>, <<7, 9, 80>>}}

\* The payloads of at most n rows.
CotFrames(n) == {<<>>} \cup SeqsUpTo(CotRows, n)

\* Parsed positioning records as the scorers receive them.
CotInputs ==
    {CotRecord([non_com_long |-> ns + 20, non_com_short |-> 20, comm_long |-> 40,
                comm_short |-> 45, open_interest |-> 100, date |-> 8],
               dl, ds, 0) :
        ns \in {-1, 0, 1, 50000, 50001}, dl \in {-1, 0, 1}, ds \in {-1, 0, 1}}

OptCot == {None} \cup CotInputs

PriceFrames ==
    {[tag |-> "df", PctChange |-> f] :
        f \in UNION {[T -> {-21, -20, 0, 20, 21}] : T \in SUBSET {"QQQ", "NVDA"}}}

OptFrames == {None} \cup PriceFrames

OptionFlows ==
    {option_flow(c, p) : c \in {0, 100}, p \in {0, 79, 80, 100, 120, 121}}

OptFlows == {None} \cup OptionFlows

BreadthCounts ==
    {ad \in (0..BasketSize) \X (0..BasketSize) : ad[1] + ad[2] <= BasketSize}

CrossMaps ==
    UNION {[K -> {[PctChange |-> c] : c \in {-1, 0, 1}}] :
              K \in SUBSET {"DXY", "US10Y", "VIX"}}

\* Calendar events around clock reading 0: on the edge of the window, one
\* second outside it, without a date, with a date strptime rejects.
MacroEventSet ==
    {[Date |-> [tag |-> "datetime", t |-> -Window], Impact |-> i, Surprise |-> sp] :
        i \in {"High", "Medium", "Low"},
        sp \in {None, [tag |-> "number", v |-> 3], [tag |-> "number", v |-> -3],
                [tag |-> "number", v |-> 0], [tag |-> "text"]}}
    \cup {[Date |-> [tag |-> "datetime", t |-> Window + 1], Impact |-> "High",
           Surprise |-> None],
          [Date |-> [tag |-> "datetime", t |-> -Window - 1], Impact |-> "High",
           Surprise |-> [tag |-> "number", v |-> 3]],
          [Date |-> None, Impact |-> "High", Surprise |-> None],
          [Date |-> [tag |-> "unparseable"], Impact |-> "High",
           Surprise |-> [tag |-> "number", v |-> 3]],
          [Date |-> [tag |-> "datetime", t |-> Window], Impact |-> "Unknown",
           Surprise |-> [tag |-> "empty"]],
          [Date |-> [tag |-> "datetime", t |-> Window], Impact |-> "High",
           Surprise |-> [tag |-> "empty"]]}

\* The calendars of at most n events.
MacroEventSeqs(n) == {<<>>} \cup SeqsUpTo(MacroEventSet, n)

\* What each scorer of the Nasdaq column can return.
CotScores == {score_cot_generic(c).score : c \in OptCot}

PriceScores == {score_price(f, "QQQ").score : f \in OptFrames}

OptionScores == {score_options(f).score : f \in OptFlows}

BreadthScores ==
    {Max(Min(compute_breadth(ad[1], ad[2])[1], 2000), -2000) : ad \in BreadthCounts}

MacroScores ==
    LET inWindow == {e \in MacroEventSet :
                        /\ e.Date = [tag |-> "datetime", t |-> -Window]
                        /\ e.Impact \in {"High", "Medium"}
                        /\ e.Surprise.tag \in {"None", "number"}}
    IN  {score_macro(ev, 0).score : ev \in {<<>>} \cup SeqsUpTo(inWindow, MaxEvents)}

(***************************************************************************)
(* The pure functions applied to the bounded inputs                        *)
(***************************************************************************)
Pending == [tag |-> "pending"]

Returned(v) == [tag |-> "returned", val |-> v]

\* The module-level script before it runs.
CycleInit ==
    /\ pc = "fetch_cot"
    /\ now = 0
    /\ cot_df = <<>>
    /\ cot_ndx = None
    /\ cot_gold = None
    /\ px_nas = None
    /\ opt_qqq = None
    /\ breadth = None
    /\ macro_events = <<>>
    /\ cross_map = <<>>
    /\ nasdaq = None
    /\ opt_gld = None
    /\ gold = None
    /\ cached = FALSE
    /\ prev_result = None
    /\ runs = 0

ApplySentimentLabel ==
    /\ call.fn = "sentiment_label" /\ ret = Pending
    /\ ret' = Returned(sentiment_label(call.score))
    /\ UNCHANGED <<call, cycleVars>>

ApplyScoreCotGeneric ==
    /\ call.fn = "score_cot_generic" /\ ret = Pending
    /\ ret' = Returned(score_cot_generic(call.cot))
    /\ UNCHANGED <<call, cycleVars>>

ApplyScoreGoldCot ==
    /\ call.fn = "score_gold_cot" /\ ret = Pending
    /\ ret' = Returned(score_gold_cot(call.cot))
    /\ UNCHANGED <<call, cycleVars>>

ApplyScorePrice ==
    /\ call.fn = "score_price" /\ ret = Pending
    /\ ret' = Returned(score_price(call.px_df, call.base_ticker))
    /\ UNCHANGED <<call, cycleVars>>

ApplyScoreOptions ==
    /\ call.fn = "score_options" /\ ret = Pending
    /\ ret' = Returned(score_options(call.flow))
    /\ UNCHANGED <<call, cycleVars>>

ApplyComputeBreadth ==
    /\ call.fn = "compute_breadth" /\ ret = Pending
    /\ ret' = Returned(compute_breadth(call.adv, call.dec))
    /\ UNCHANGED <<call, cycleVars>>

ApplyNasdaqScore ==
    /\ call.fn = "nasdaq_score" /\ ret = Pending
    /\ ret' = Returned(nasdaq_score(call.s_cot, call.s_prc, call.s_opt,
                                    call.s_brd, call.s_mac))
    /\ UNCHANGED <<call, cycleVars>>

ApplyGoldColumn ==
    /\ call.fn = "gold_column" /\ ret = Pending
    /\ ret' = Returned(gold_column(call.cot, call.opt, call.pxmap))
    /\ UNCHANGED <<call, cycleVars>>

ApplyParseNasdaq ==
    /\ call.fn = "parse_cot_for_nasdaq" /\ ret = Pending
    /\ ret' = Returned(parse_cot_for_nasdaq(call.df))
    /\ UNCHANGED <<call, cycleVars>>

ApplyParseGold ==
    /\ call.fn = "parse_cot_for_gold" /\ ret = Pending
    /\ ret' = Returned(parse_cot_for_gold(call.df))
    /\ UNCHANGED <<call, cycleVars>>

ApplyScoreMacro ==
    /\ call.fn = "score_macro" /\ ret = Pending
    /\ ret' = Returned(score_macro(call.calendar_events, call.clock))
    /\ UNCHANGED <<call, cycleVars>>

ScorersInit ==
    /\ CycleInit
    /\ ret = Pending
    /\ \/ \E s \in -2600..2600 : call = [fn |-> "sentiment_label", score |-> s]
       \/ \E c \in OptCot : call = [fn |-> "score_cot_generic", cot |-> c]
       \/ \E c \in OptCot : call = [fn |-> "score_gold_cot", cot |-> c]
       \/ \E f \in OptFrames, t \in {"QQQ", "NVDA"} :
             call = [fn |-> "score_price", px_df |-> f, base_ticker |-> t]
       \/ \E f \in OptFlows : call = [fn |-> "score_options", flow |-> f]
       \/ \E ad \in BreadthCounts :
             call = [fn |-> "compute_breadth", adv |-> ad[1], dec |-> ad[2]]
       \/ \E a \in CotScores, b \in PriceScores, c \in OptionScores,
             d \in BreadthScores, e \in MacroScores :
             call = [fn |-> "nasdaq_score", s_cot |-> a, s_prc |-> b,
                     s_opt |-> c, s_brd |-> d, s_mac |-> e]
       \/ \E c \in OptCot, f \in OptFlows, m \in CrossMaps :
             call = [fn |-> "gold_column", cot |-> c, opt |-> f, pxmap |-> m]

ScorersNext ==
    \/ ApplySentimentLabel
    \/ ApplyScoreCotGeneric
    \/ ApplyScoreGoldCot
    \/ ApplyScorePrice
    \/ ApplyScoreOptions
    \/ ApplyComputeBreadth
    \/ ApplyNasdaqScore
    \/ ApplyGoldColumn

SpecScorers == ScorersInit /\ [][ScorersNext]_vars

ParseInit ==
    /\ CycleInit
    /\ ret = Pending
    /\ \E df \in CotFrames(MaxRows), f \in {"parse_cot_for_nasdaq", "parse_cot_for_gold"} :
          call = [fn |-> f, df |-> df]

ParseNext == ApplyParseNasdaq \/ ApplyParseGold

SpecParse == ParseInit /\ [][ParseNext]_vars

MacroInit ==
    /\ CycleInit
    /\ ret = Pending
    /\ \E ev \in MacroEventSeqs(MaxEvents) :
          call = [fn |-> "score_macro", calendar_events |-> ev, clock |-> 0]

MacroNext == ApplyScoreMacro

SpecMacro == MacroInit /\ [][MacroNext]_vars

(***************************************************************************)
(* The evaluation cycle: the module-level script, lines 313-392.  A fetch  *)
(* either returns a payload or raises; an exception no handler catches     *)
(* ends the script run.                                                    *)
(***************************************************************************)
MaxReruns == 2

CyclePayloads ==
    {<<[name |-> "SILVER - COMMODITY EXCHANGE INC.", date |-> 8, ncl |-> 10,
        ncs |-> 5, oi |-> 100, cl |-> 40, cs |-> 45]>>,
     <<[name |-> "E-MINI NASDAQ-100", date |-> 8, ncl |-> 10, ncs |-> 5,
        oi |-> 100, cl |-> 40, cs |-> 45]>>,
     <<[name |-> "GOLD - COMMODITY EXCHANGE INC.", date |-> 1, ncl |-> 60000,
        ncs |-> 9000, oi |-> 90000, cl |-> 40, cs |-> 45],
       [name |-> "GOLD - COMMODITY EXCHANGE INC.", date |-> 8, ncl |-> 70000,
        ncs |-> 8000, oi |-> 95000, cl |-> 40, cs |-> 45],
       [name |-> "E-MINI NASDAQ-100", date |-> 8, ncl |-> 7, ncs |-> 9,
        oi |-> 80, cl |-> 40, cs |-> 45]>>}

CyclePriceFrames ==
    {[tag |-> "df", PctChange |-> [t \in {"QQQ"} |-> 50]],
     [tag |-> "df", PctChange |-> [t \in {"NVDA"} |-> -30]]}

CycleFlows == {None, option_flow(100, 75), option_flow(100, 121)}

CycleBreadthCounts == {<<15, 5>>, <<0, 0>>}

CycleCalendars ==
    {<<>>,
     <<[Date |-> [tag |-> "datetime", t |-> -Window], Impact |-> "High",
        Surprise |-> None]>>,
     <<[Date |-> [tag |-> "datetime", t |-> Window + 1], Impact |-> "High",
        Surprise |-> [tag |-> "number", v |-> 3]]>>}

CycleCrossMaps ==
    {[k \in {} |-> [PctChange |-> 0]],
     [k \in {"DXY", "US10Y", "VIX"} |-> [PctChange |-> -1]]}

\* Line 324: requests.get or raise_for_status raises; nothing catches it.
FetchCotFails ==
    /\ pc = "fetch_cot"
    /\ pc' = "aborted"
    /\ UNCHANGED <<now, cot_df, cot_ndx, cot_gold, px_nas, opt_qqq, breadth,
                   macro_events, cross_map, nasdaq, opt_gld, gold, cached,
                   prev_result, runs, call, ret>>

\* Lines 324-326.
LoadCot ==
    /\ pc = "fetch_cot"
    /\ \E df \in CyclePayloads :
          /\ cot_df' = df
          /\ cot_ndx' = parse_cot_for_nasdaq(df)
          /\ cot_gold' = parse_cot_for_gold(df)
    /\ pc' = "fetch_prices"
    /\ UNCHANGED <<now, px_nas, opt_qqq, breadth, macro_events, cross_map,
                   nasdaq, opt_gld, gold, cached, prev_result, runs, call, ret>>

\* Line 328: fetch_prices has no handler; yf.download or the indexing of an
\* empty download raises.
FetchPricesFails ==
    /\ pc = "fetch_prices"
    /\ pc' = "aborted"
    /\ UNCHANGED <<now, cot_df, cot_ndx, cot_gold, px_nas, opt_qqq, breadth,
                   macro_events, cross_map, nasdaq, opt_gld, gold, cached,
                   prev_result, runs, call, ret>>

\* Line 328.
LoadPrices ==
    /\ pc = "fetch_prices"
    /\ px_nas' \in CyclePriceFrames
    /\ pc' = "fetch_options"
    /\ UNCHANGED <<now, cot_df, cot_ndx, cot_gold, opt_qqq, breadth,
                   macro_events, cross_map, nasdaq, opt_gld, gold, cached,
                   prev_result, runs, call, ret>>

\* Line 329: fetch_option_flow_yf returns None when the ticker has no expiry
\* or anything raises (lines 172-173, 190-191).
LoadOptions ==
    /\ pc = "fetch_options"
    /\ opt_qqq' \in CycleFlows
    /\ pc' = "breadth"
    /\ UNCHANGED <<now, cot_df, cot_ndx, cot_gold, px_nas, breadth,
                   macro_events, cross_map, nasdaq, opt_gld, gold, cached,
                   prev_result, runs, call, ret>>

\* Line 330: the fetch_prices call of compute_breadth (line 209) raises.
BreadthFails ==
    /\ pc = "breadth"
    /\ pc' = "aborted"
    /\ UNCHANGED <<now, cot_df, cot_ndx, cot_gold, px_nas, opt_qqq, breadth,
                   macro_events, cross_map, nasdaq, opt_gld, gold, cached,
                   prev_result, runs, call, ret>>

\* Line 330.
LoadBreadth ==
    /\ pc = "breadth"
    /\ \E ad \in CycleBreadthCounts : breadth' = compute_breadth(ad[1], ad[2])
    /\ pc' = "fetch_calendar"
    /\ UNCHANGED <<now, cot_df, cot_ndx, cot_gold, px_nas, opt_qqq,
                   macro_events, cross_map, nasdaq, opt_gld, gold, cached,
                   prev_result, runs, call, ret>>

\* Line 331: fetch_trading_economics_calendar returns [] on a bad status or
\* an exception (lines 198-199, 202-203).
LoadCalendar ==
    /\ pc = "fetch_calendar"
    /\ macro_events' \in CycleCalendars
    /\ pc' = "fetch_cross"
    /\ UNCHANGED <<now, cot_df, cot_ndx, cot_gold, px_nas, opt_qqq, breadth,
                   cross_map, nasdaq, opt_gld, gold, cached, prev_result,
                   runs, call, ret>>

\* Line 335: the fetch_prices call raises.
CrossFails ==
    /\ pc = "fetch_cross"
    /\ pc' = "aborted"
    /\ UNCHANGED <<now, cot_df, cot_ndx, cot_gold, px_nas, opt_qqq, breadth,
                   macro_events, cross_map, nasdaq, opt_gld, gold, cached,
                   prev_result, runs, call, ret>>

\* Lines 334-340.
LoadCross ==
    /\ pc = "fetch_cross"
    /\ cross_map' \in CycleCrossMaps
    /\ pc' = "nasdaq_column"
    /\ UNCHANGED <<now, cot_df, cot_ndx, cot_gold, px_nas, opt_qqq, breadth,
                   macro_events, nasdaq, opt_gld, gold, cached, prev_result,
                   runs, call, ret>>

\* Lines 347-358; score_macro reads the clock (line 263).
NasdaqColumn ==
    /\ pc = "nasdaq_column"
    /\ nasdaq' = nasdaq_column(cot_ndx, px_nas, opt_qqq, breadth[1],
                               macro_events, now)
    /\ pc' = "gold_column"
    /\ UNCHANGED <<now, cot_df, cot_ndx, cot_gold, px_nas, opt_qqq, breadth,
                   macro_events, cross_map, opt_gld, gold, cached, prev_result,
                   runs, call, ret>>

\* Lines 371-381.  fetch_option_flow_yf("GLD") returns the value
\* st.cache_data holds when there is one.
GoldColumn ==
    /\ pc = "gold_column"
    /\ IF cached THEN opt_gld' = opt_gld ELSE opt_gld' \in CycleFlows
    /\ gold' = gold_column(cot_gold, opt_gld', cross_map)
    /\ cached' = TRUE
    /\ pc' = "done"
    /\ UNCHANGED <<now, cot_df, cot_ndx, cot_gold, px_nas, opt_qqq, breadth,
                   macro_events, cross_map, nasdaq, prev_result, runs, call,
                   ret>>

\* Streamlit runs the script again later with every cache entry still
\* alive: each fetcher of lines 324-340 returns the payload it returned
\* before, so the run continues at the columns with the payloads unchanged.
\* prev_result records what the finished run displayed.
Rerun ==
    /\ pc = "done"
    /\ runs < MaxReruns
    /\ runs' = runs + 1
    /\ now' = now + 1
    /\ prev_result' = [nasdaq |-> nasdaq, gold |-> gold]
    /\ pc' = "nasdaq_column"
    /\ UNCHANGED <<cot_df, cot_ndx, cot_gold, px_nas, opt_qqq, breadth,
                   macro_events, cross_map, nasdaq, opt_gld, gold, cached,
                   call, ret>>

\* Lines 313-315: the Refresh button clears the cache and the script runs
\* from the top, in a fresh namespace, with fresh fetches.
Refresh ==
    /\ pc \in {"done", "aborted"}
    /\ runs < MaxReruns
    /\ runs' = runs + 1
    /\ now' = now + 1
    /\ cached' = FALSE
    /\ prev_result' = None
    /\ pc' = "fetch_cot"
    /\ cot_df' = <<>> /\ cot_ndx' = None /\ cot_gold' = None
    /\ px_nas' = None /\ opt_qqq' = None /\ breadth' = None
    /\ macro_events' = <<>> /\ cross_map' = <<>>
    /\ nasdaq' = None /\ opt_gld' = None /\ gold' = None
    /\ UNCHANGED <<call, ret>>

Init == CycleInit /\ call = None /\ ret = Pending

Next ==
    \/ FetchCotFails
    \/ LoadCot
    \/ FetchPricesFails
    \/ LoadPrices
    \/ LoadOptions
    \/ BreadthFails
    \/ LoadBreadth
    \/ LoadCalendar
    \/ CrossFails
    \/ LoadCross
    \/ NasdaqColumn
    \/ GoldColumn
    \/ Rerun
    \/ Refresh

Spec == Init /\ [][Next]_vars

(***************************************************************************)
(* Properties                                                              *)
(***************************************************************************)
Done(f) == call.fn = f /\ ret.tag = "returned"

\* C1 as stated: sentiment_label returns each label exactly on the band the
\* claim gives it: Bullish on score >= 1.5, Mild Bullish on [0.5, 1.5),
\* Neutral on (-0.5, 0.5), Mild Bearish on (-1.5, -0.5], Bearish on
\* score < -1.5.
C1_LabelBandsAsStated ==
    Done("sentiment_label") =>
        LET s == call.score
            l == ret.val[1]
        IN  /\ (l = "Bullish") <=> (s >= 1500)
            /\ (l = "Mild Bullish") <=> (500 <= s /\ s < 1500)
            /\ (l = "Neutral") <=> (-500 < s /\ s < 500)
            /\ (l = "Mild Bearish") <=> (-1500 < s /\ s <= -500)
            /\ (l = "Bearish") <=> (s < -1500)

\* C1 amended: sentiment_label is total and returns each label exactly on
\* its band, the Bearish band being score <= -1.5 (closed at -1.5); the
\* other bands are as stated, so 1.5 is Bullish, 1.499 and 0.5 are Mild
\* Bullish and -0.5 is Mild Bearish.
C1_LabelBands ==
    Done("sentiment_label") =>
        LET s == call.score
            l == ret.val[1]
        IN  /\ l \in {"Bullish", "Mild Bullish", "Neutral", "Mild Bearish",
                      "Bearish"}
            /\ (l = "Bullish") <=> (s >= 1500)
            /\ (l = "Mild Bullish") <=> (500 <= s /\ s < 1500)
            /\ (l = "Neutral") <=> (-500 < s /\ s < 500)
            /\ (l = "Mild Bearish") <=> (-1500 < s /\ s <= -500)
            /\ (l = "Bearish") <=> (s <= -1500)
            /\ (s = 1500 => l = "Bullish")
            /\ (s = 1499 => l = "Mild Bullish")
            /\ (s = 500 => l = "Mild Bullish")
            /\ (s = -500 => l = "Mild Bearish")

C1_Witness ==
    Done("sentiment_label") /\ call.score = -1500 /\ ret.val[1] = "Bearish"

\* C3: for every combination of scores the five Nasdaq scorers can return,
\* the composite is 0.15*positioning + 0.25*price + 0.20*options +
\* 0.20*breadth + 0.20*macro, with nothing re-weighted when a signal is 0,
\* and lies in [-2.6, 2.6].
C3_NasdaqComposite ==
    Done("nasdaq_score") =>
        /\ 1000 * ret.val = 150 * call.s_cot + 250 * call.s_prc
                            + 200 * call.s_opt + 200 * call.s_brd
                            + 200 * call.s_mac
        /\ -2600 <= ret.val /\ ret.val <= 2600

C3_Witness ==
    /\ Done("nasdaq_score")
    /\ call.s_cot = 0 /\ call.s_prc = 1000 /\ call.s_opt = 0
    /\ call.s_brd = 2000 /\ call.s_mac = 3000
    /\ ret.val = 1250

NoDataTexts == {"No COT", "No price data", "No option flow (PCR)"}

\* C4: a scorer given an absent input returns score 0 with its no-data
\* rationale (both positioning scorers on None, score_price on a None frame
\* or a frame without the ticker, score_options on None or on a flow
\* without a put/call ratio, which is the case exactly when call volume is
\* 0); a present quote with change 0 and a present ratio in [0.8, 1.2]
\* score 0 with a data rationale.
C4_AbsentInputScoresZero ==
    /\ Done("score_cot_generic") /\ call.cot = None
           => ret.val = Scored(0, "No COT")
    /\ Done("score_gold_cot") /\ call.cot = None
           => ret.val = Scored(0, "No COT")
    /\ Done("score_price")
           => IF call.px_df = None
              THEN ret.val = Scored(0, "No price data")
              ELSE IF call.base_ticker \notin DOMAIN call.px_df.PctChange
              THEN ret.val = Scored(0, "No price data")
              ELSE /\ ret.val.txt \notin NoDataTexts
                   /\ call.px_df.PctChange[call.base_ticker] = 0
                          => ret.val.score = 0
    /\ Done("score_options")
           => IF call.flow = None
              THEN ret.val = Scored(0, "No option flow (PCR)")
              ELSE /\ (call.flow.put_call_ratio = None)
                          <=> (call.flow.call_volume = 0)
                   /\ IF call.flow.call_volume = 0
                      THEN ret.val = Scored(0, "No option flow (PCR)")
                      ELSE /\ ret.val.txt \notin NoDataTexts
                           /\ (/\ 10 * call.flow.put_volume >= 8 * call.flow.call_volume
                               /\ 10 * call.flow.put_volume <= 12 * call.flow.call_volume)
                                  => ret.val = Scored(0, "Put/Call neutral")

C4_Witness ==
    /\ Done("score_options")
    /\ call.flow # None
    /\ call.flow.call_volume = 0 /\ call.flow.put_volume = 121
    /\ ret.val = Scored(0, "No option flow (PCR)")

\* The sub-votes of the breadth score with the advance/decline ratio taken
\* as adv/dec, which exceeds any threshold when something advances and
\* nothing declines.
RatioVoteAdvOverDec(adv, dec) ==
    IF 10 * adv > 12 * dec THEN 1000
    ELSE IF 10 * adv < 8 * dec THEN -1000
    ELSE 0

PctVote(adv) ==
    IF 100 * adv > 55 * BasketSize THEN 1000
    ELSE IF 100 * adv < 45 * BasketSize THEN -1000
    ELSE 0

\* C8 as stated: for all counts with adv + dec <= 20 the breadth score is
\* the ratio vote (+1 when adv/dec > 1.2, -1 when adv/dec < 0.8) plus the
\* percent-advancing vote (+1 when adv/20 > 0.55, -1 when adv/20 < 0.45),
\* clamped to [-3, 3].  Counts with nothing moving (0/0) are left out.
C8_BreadthAsStated ==
    (Done("compute_breadth") /\ call.adv + call.dec > 0) =>
        ret.val[1] = Max(Min(RatioVoteAdvOverDec(call.adv, call.dec)
                             + PctVote(call.adv), 3000), -3000)

\* C8 amended: the same with the ratio computed as adv / max(dec, 1), so
\* that with no decliner the ratio is the advancing count itself; adv=12,
\* dec=8 gives +2.
C8_Breadth ==
    Done("compute_breadth") =>
        LET den == IF call.dec = 0 THEN 1 ELSE call.dec
            ratioVote == IF 10 * call.adv > 12 * den THEN 1000
                         ELSE IF 10 * call.adv < 8 * den THEN -1000 ELSE 0
        IN  /\ ret.val[1] = Max(Min(ratioVote + PctVote(call.adv), 3000), -3000)
            /\ (call.adv = 12 /\ call.dec = 8) => ret.val[1] = 2000
            /\ ret.val[4] = 20

C8_Witness ==
    /\ Done("compute_breadth")
    /\ call.adv = 1 /\ call.dec = 0
    /\ ret.val[1] = -1000

\* C9: on a present Gold positioning record score_gold_cot returns base +
\* adjustment clamped to [-2, 2]; base is 1.5 when netSpeculative > 50000,
\* 1 when it is positive, else -1; the adjustment is +0.5 or -0.5, +0.5 for
\* a positive long-position delta and -0.5 for a negative one.
C9_GoldCot ==
    (Done("score_gold_cot") /\ call.cot # None) =>
        LET ns == call.cot.net_spec
            d == call.cot.chg_non_com_long
            base == IF ns > 50000 THEN 1500 ELSE IF ns > 0 THEN 1000 ELSE -1000
        IN  \E adj \in {500, -500} :
               /\ d > 0 => adj = 500
               /\ d < 0 => adj = -500
               /\ ret.val.score = Max(Min(base + adj, 2000), -2000)

C9_Witness ==
    /\ Done("score_gold_cot")
    /\ call.cot # None
    /\ call.cot.net_spec = 50000 /\ call.cot.chg_non_com_long = 1
    /\ ret.val.score = 1500

\* C10: for every Gold positioning record or none, option flow or none and
\* subset of the three cross-asset proxies, the Gold composite
\* 0.35*positioning + 0.25*0 + 0.20*options + 0.20*cross lies in
\* [-1.125, 1.3] and its label is Mild Bearish, Neutral or Mild Bullish.
C10_GoldCompositeRange ==
    Done("gold_column") =>
        /\ 1000 * ret.val.score = 350 * ret.val.s_cot_g + 200 * ret.val.s_opt_g
                                  + 200 * ret.val.s_cross
        /\ -1125 <= ret.val.score /\ ret.val.score <= 1300
        /\ ret.val.lbl \in {"Mild Bearish", "Neutral", "Mild Bullish"}

C10_Witness ==
    /\ Done("gold_column")
    /\ ret.val.s_cross = 2000
    /\ ret.val.score = 1300
    /\ ret.val.lbl = "Mild Bullish"

\* The names the predicate of the called parser matches.
CalledNames ==
    IF call.fn = "parse_cot_for_nasdaq" THEN NasdaqNames ELSE GoldNames

ClaimedContribution(e, clock) ==
    LET impact == IF e.Impact = "High" THEN 2000
                  ELSE IF e.Impact = "Medium" THEN 1000 ELSE 0
    IN  IF e.Date.tag # "datetime" THEN 0
        ELSE IF e.Date.t < clock - Window \/ e.Date.t > clock + Window THEN 0
        ELSE IF e.Surprise.tag \in {"None", "empty"} THEN -(impact \div 2)
        ELSE IF e.Surprise.tag = "number" /\ e.Surprise.v > 0 THEN impact
        ELSE IF e.Surprise.tag = "number" /\ e.Surprise.v < 0 THEN -impact
        ELSE 0

RECURSIVE ClaimedSum(_, _)
ClaimedSum(events, clock) ==
    IF events = <<>> THEN 0
    ELSE ClaimedContribution(Head(events), clock) + ClaimedSum(Tail(events), clock)

\* C5: for any finite sequence of calendar events score_macro returns the
\* sum of the per-event contributions, clamped once to [-3, 3]: an
\* in-window event adds its impact (Low 0, Medium 1, High 2) when its
\* surprise is positive, subtracts it when negative, and subtracts half of
\* it when no surprise is reported.
C5_MacroSum ==
    Done("score_macro") =>
        ret.val.score =
            Max(Min(ClaimedSum(call.calendar_events, call.clock), 3000), -3000)

\* C2: whatever fetch errors or times out, the evaluation cycle is not
\* aborted.
C2_NoFetchFailureAborts == pc # "aborted"

\* C6: a run of the cycle on the payloads of the previous run (identical
\* frozen inputs) displays the scores, composites and labels the previous
\* run displayed.
C6_RerunIdentical ==
    (pc = "done" /\ prev_result # None) =>
        prev_result = [nasdaq |-> nasdaq, gold |-> gold]

====
